---- MODULE Spec2Model ----
(***************************************************************************)
(* Model of the block router: the pathname parser / serializer of Route,   *)
(* the selector engine of Router and the Notifier tree.                     *)
(*                                                                         *)
(* Strings are sequences of one-character strings, so that split,          *)
(* includes and encodeURIComponent act on characters as the code does.     *)
(***************************************************************************)
EXTENDS Integers, Sequences, FiniteSets

\* ------------------------------------------------------------------ bounds
MaxPathLen == 4
MaxSegs == 3
MaxRuleLen == 3
MaxNotifiers == 2

\* ----------------------------------------------------------------- strings
EmptyStr == <<>>

RECURSIVE Concat(_)
Concat(ss) == IF ss = <<>> THEN <<>> ELSE Head(ss) \o Concat(Tail(ss))

RECURSIVE Join(_, _)
Join(ss, sep) ==
    IF ss = <<>> THEN <<>>
    ELSE IF Len(ss) = 1 THEN ss[1]
    ELSE ss[1] \o sep \o Join(Tail(ss), sep)

Includes(s, ch) == \E i \in 1..Len(s) : s[i] = ch

FirstIndex(s, ch) == CHOOSE i \in 1..Len(s) : s[i] = ch /\ \A j \in 1..(i - 1) : s[j] # ch

RECURSIVE Split(_, _)
Split(s, ch) ==
    IF ~Includes(s, ch) THEN <<s>>
    ELSE LET i == FirstIndex(s, ch)
         IN <<SubSeq(s, 1, i - 1)>> \o Split(SubSeq(s, i + 1, Len(s)), ch)

FilterBoolean(ss) == SelectSeq(ss, LAMBDA p : p # EmptyStr)

Unreserved == {"a", "b", "c", "x", "y", "_", "-", ".", "!", "~", "*", "'", "0", "1", "2", "3", "5", "D", "F"}

EncodeChar(ch) ==
    IF ch \in Unreserved THEN <<ch>>
    ELSE IF ch = " " THEN <<"%", "2", "0">>
    ELSE IF ch = "=" THEN <<"%", "3", "D">>
    ELSE IF ch = "/" THEN <<"%", "2", "F">>
    ELSE IF ch = "%" THEN <<"%", "2", "5">>
    ELSE <<ch>>

encodeURIComponent(s) == Concat([i \in 1..Len(s) |-> EncodeChar(s[i])])

\* ----------------------------------------------------------- configuration
defaultConfiguration == [splitBlock |-> "~", splitParam |-> "="]

\* ------------------------------------------------------------------ parser
NameKey == <<"_", "_", "n", "a", "m", "e">>

\* A Context is the object's own entries in insertion order: <<key, value>>.
HasKey(ctx, k) == \E i \in 1..Len(ctx) : ctx[i][1] = k

Get(ctx, k) == ctx[CHOOSE i \in 1..Len(ctx) : ctx[i][1] = k][2]

Put(ctx, k, v) ==
    IF HasKey(ctx, k)
    THEN [i \in 1..Len(ctx) |-> IF ctx[i][1] = k THEN <<k, v>> ELSE ctx[i]]
    ELSE Append(ctx, <<k, v>>)

Accumulate(acc, key, value) ==
    LET old == IF HasKey(acc, key) THEN Get(acc, key) ELSE EmptyStr
        sp == IF HasKey(acc, key) /\ Get(acc, key) # EmptyStr THEN <<" ">> ELSE EmptyStr
    IN Put(acc, key, old \o sp \o value)

ContextEntry(param, i, configuration) ==
    IF i = 1 THEN <<NameKey, param>>
    ELSE LET pieces == Split(param, configuration.splitParam)
         IN <<pieces[1], IF Len(pieces) >= 2 THEN pieces[2] ELSE EmptyStr>>

parseContext(pathParts, configuration) ==
    LET F[i \in 0..Len(pathParts)] ==
            IF i = 0 THEN << <<NameKey, EmptyStr>> >>
            ELSE LET e == ContextEntry(pathParts[i], i, configuration)
                 IN Accumulate(F[i - 1], e[1], e[2])
    IN F[Len(pathParts)]

\* param.split('='), destructured as [key, value]: the first two pieces.
SearchEntry(param) ==
    LET pieces == Split(param, "=")
    IN <<pieces[1], IF Len(pieces) >= 2 THEN pieces[2] ELSE EmptyStr>>

\* search.slice(+search.startsWith('?')).split('&').filter(Boolean)
SearchParts(search) ==
    FilterBoolean(Split(IF search # <<>> /\ search[1] = "?" THEN Tail(search) ELSE search, "&"))

\* Params as the object's own entries in insertion order: <<key, value>>.
parseSearch(search) ==
    LET parts == SearchParts(search)
        F[i \in 0..Len(parts)] ==
            IF i = 0 THEN <<>>
            ELSE LET e == SearchEntry(parts[i])
                 IN Accumulate(F[i - 1], e[1], e[2])
    IN F[Len(parts)]

ContextRunsDocumented(pathParts, configuration) ==
    LET F[i \in 0..Len(pathParts)] ==
            IF i = 0 THEN <<>>
            ELSE LET part == pathParts[i]
                     acc == IF i = 1 \/ ~Includes(part, configuration.splitParam)
                            THEN Append(F[i - 1], <<>>) ELSE F[i - 1]
                 IN [acc EXCEPT ![Len(acc)] = Append(@, part)]
    IN F[Len(pathParts)]

\* acc.at(-1)!.push(part): with an empty acc, at(-1) is undefined and the
\* push throws; nothing is added.
PushLast(acc, part) == IF acc = <<>> THEN acc ELSE [acc EXCEPT ![Len(acc)] = Append(@, part)]

\* The condition under which the reduce of parseBlock opens a context.
OpensContext(i, part, configuration) == i = 1 \/ Includes(part, configuration.splitParam)

ContextRuns(pathParts, configuration) ==
    LET F[i \in 0..Len(pathParts)] ==
            IF i = 0 THEN <<>>
            ELSE LET part == pathParts[i]
                     acc == IF OpensContext(i, part, configuration)
                            THEN Append(F[i - 1], <<>>) ELSE F[i - 1]
                 IN PushLast(acc, part)
    IN F[Len(pathParts)]

\* Whether the reduce of parseBlock throws: a part is pushed on an empty acc.
ContextRunsThrows(pathParts, configuration) ==
    \E i \in 1..Len(pathParts) :
        /\ ~OpensContext(i, pathParts[i], configuration)
        /\ ContextRuns(SubSeq(pathParts, 1, i - 1), configuration) = <<>>

parseBlock(pathParts, configuration) ==
    LET runs == ContextRuns(pathParts, configuration)
    IN [j \in 1..Len(runs) |-> parseContext(runs[j], configuration)]

SegmentsUnfiltered(pathname) == Split(pathname, "/")

Segments(pathname) == FilterBoolean(Split(pathname, "/"))

\* The condition under which the reduce of parseStack opens a block.
OpensBlockNotFirst(i, part, configuration) == part = <<configuration.splitBlock>>

OpensBlock(i, part, configuration) == i = 1 \/ part = <<configuration.splitBlock>>

BlockRuns(parts, configuration) ==
    LET F[i \in 0..Len(parts)] ==
            IF i = 0 THEN <<>>
            ELSE LET part == parts[i]
                     acc == IF OpensBlock(i, part, configuration)
                            THEN Append(F[i - 1], <<>>) ELSE F[i - 1]
                 IN PushLast(acc, part)
    IN F[Len(parts)]

\* Whether the reduce of parseStack throws: a part is pushed on an empty acc.
BlockRunsThrows(parts, configuration) ==
    \E i \in 1..Len(parts) :
        /\ ~OpensBlock(i, parts[i], configuration)
        /\ BlockRuns(SubSeq(parts, 1, i - 1), configuration) = <<>>

parseStack(pathname, configuration) ==
    LET runs == BlockRuns(Segments(pathname), configuration)
    IN [j \in 1..Len(runs) |-> parseBlock(runs[j], configuration)]

\* Whether parseStack(pathname) throws instead of returning: split, filter,
\* map and the destructuring in parseContext cannot; the two reduces can.
parseStackThrows(pathname, configuration) ==
    \/ BlockRunsThrows(Segments(pathname), configuration)
    \/ LET runs == BlockRuns(Segments(pathname), configuration)
       IN \E j \in 1..Len(runs) : ContextRunsThrows(runs[j], configuration)

\* -------------------------------------------------------------- serializer
stringifyContext(context, configuration) ==
    LET name == Get(context, NameKey)
        props == SelectSeq(context, LAMBDA e : e[1] # NameKey)
        strs == [i \in 1..Len(props) |->
                    encodeURIComponent(props[i][1]) \o <<configuration.splitParam>>
                        \o encodeURIComponent(props[i][2])]
    IN <<"/">> \o name \o (IF Len(props) > 0 THEN <<"/">> ELSE EmptyStr) \o Join(strs, <<"/">>)

stringifyBlock(block, configuration) ==
    Concat([i \in 1..Len(block) |-> stringifyContext(block[i], configuration)])

stringifyStack(stack, configuration) ==
    Join([i \in 1..Len(stack) |-> stringifyBlock(stack[i], configuration)],
         <<"/", configuration.splitBlock>>)

\* ---------------------------------------------------------------- selector
Undefined == [undefined |-> TRUE]

Root == [block |-> 0, context |-> -1]

TypeError == [error |-> "TypeError"]

\* Rule parts: a string ('/', '~' or a context name), a RegExp or an object.
StringPart(s) == [type |-> "string", s |-> s, entries |-> <<>>]

RegExpPart(s) == [type |-> "RegExp", s |-> s, entries |-> <<>>]

ObjectPart(entries) == [type |-> "object", s |-> <<>>, entries |-> entries]

\* Values of an object part: RegExp, function, undefined, or anything else.
Entry(k, kind, str, num, fn) == [k |-> k, kind |-> kind, str |-> str, num |-> num, fn |-> fn]

\* String(v) of a non-negative integer.
RECURSIVE NumberToString(_)
NumberToString(n) ==
    LET digits == <<"0", "1", "2", "3", "4", "5", "6", "7", "8", "9">>
    IN IF n < 10 THEN <<digits[n + 1]>> ELSE NumberToString(n \div 10) \o <<digits[(n % 10) + 1]>>

\* String(v) of a value that is a string or a number.
String(e) == IF e.kind = "number" THEN NumberToString(e.num) ELSE e.str

\* A RegExp is modelled by a literal source: it matches the strings that
\* contain the source.
RegExpMatch(s, source) ==
    \E i \in 1..(Len(s) - Len(source) + 1) : SubSeq(s, i, i + Len(source) - 1) = source

\* route.stack[b]?.[c] with 0-based indices: whether it is defined, and
\* its value when it is.
ContextExists(stack, b, c) ==
    b >= 0 /\ b < Len(stack) /\ c >= 0 /\ c < Len(stack[b + 1])

ContextAt(stack, b, c) == stack[b + 1][c + 1]

BlockExists(stack, b) == b >= 0 /\ b < Len(stack)

\* The predicate functions a rule may carry, applied to context?.[k].
ApplyFunction(fn, defined, value) ==
    CASE fn = "isUndefined" -> ~defined
      [] fn = "isEmpty" -> defined /\ value = EmptyStr
      [] OTHER -> defined

\* One entry of an object part: "true", "false" or "throw".
MatchEntry(stack, next, e) ==
    LET exists == ContextExists(stack, next.block, next.context)
        ctx == ContextAt(stack, next.block, next.context)
        defined == exists /\ HasKey(ctx, e.k)
    IN CASE e.kind = "RegExp" ->
               IF ~exists THEN "false"
               ELSE IF ~HasKey(ctx, e.k) THEN "throw"
               ELSE IF RegExpMatch(Get(ctx, e.k), e.str) THEN "true" ELSE "false"
         [] e.kind = "function" ->
               IF ApplyFunction(e.fn, defined, IF defined THEN Get(ctx, e.k) ELSE EmptyStr)
               THEN "true" ELSE "false"
         [] e.kind = "undefined" ->
               IF ~exists THEN "throw"
               ELSE IF ~HasKey(ctx, e.k) THEN "true" ELSE "false"
         [] OTHER ->
               IF defined /\ Get(ctx, e.k) = String(e) THEN "true" ELSE "false"

\* Object.entries(part).every(...): stops at the first falsy entry.
RECURSIVE EveryEntry(_, _, _, _)
EveryEntry(stack, next, entries, j) ==
    IF j > Len(entries) THEN [outcome |-> "true", reads |-> j - 1]
    ELSE LET r == MatchEntry(stack, next, entries[j])
         IN IF r = "true" THEN EveryEntry(stack, next, entries, j + 1)
            ELSE [outcome |-> r, reads |-> j]

\* part === '/': a test of the position, nothing is consumed.
MatchRootBlockOnly(next) ==
    [outcome |-> IF next.block = 0 THEN "true" ELSE "false", next |-> next, reads |-> 0]

MatchRoot(next) ==
    [outcome |-> IF next.block = 0 /\ next.context = -1 THEN "true" ELSE "false",
     next |-> next, reads |-> 0]

\* part === '~': (next.context = -1), this.route.stack[++next.block].
MatchBlockKeepContext(stack, next) ==
    LET n == [next EXCEPT !.block = @ + 1]
    IN [outcome |-> IF BlockExists(stack, n.block) THEN "true" ELSE "false",
        next |-> n, reads |-> 1]

MatchBlock(stack, next) ==
    LET n == [block |-> next.block + 1, context |-> -1]
    IN [outcome |-> IF BlockExists(stack, n.block) THEN "true" ELSE "false",
        next |-> n, reads |-> 1]

\* A string or RegExp part: this.route.stack[next.block]?.[++next.context]
\* ?.__name against the part; the increment is skipped with the block.
MatchName(stack, next, part) ==
    IF ~BlockExists(stack, next.block)
    THEN [outcome |-> "false", next |-> next, reads |-> 1]
    ELSE LET n == [next EXCEPT !.context = @ + 1]
             ctx == ContextAt(stack, n.block, n.context)
             hit == /\ ContextExists(stack, n.block, n.context)
                    /\ IF part.type = "string" THEN Get(ctx, NameKey) = part.s
                       ELSE RegExpMatch(Get(ctx, NameKey), part.s)
         IN [outcome |-> IF hit THEN "true" ELSE "false", next |-> n, reads |-> 1]

\* An object part: next.context > -1 && Object.entries(part).every(...).
MatchObjectNoGuard(stack, next, part) ==
    LET r == EveryEntry(stack, next, part.entries, 1)
    IN [outcome |-> r.outcome, next |-> next, reads |-> r.reads]

MatchObject(stack, next, part) ==
    IF next.context > -1
    THEN LET r == EveryEntry(stack, next, part.entries, 1)
         IN [outcome |-> r.outcome, next |-> next, reads |-> r.reads]
    ELSE [outcome |-> "false", next |-> next, reads |-> 0]

\* One part of rule.every(...): the outcome, the working copy `next` after
\* the part, and the number of reads of this.route it made.
MatchPart(stack, next, part) ==
    IF part.type = "string" /\ part.s = <<"/">> THEN MatchRoot(next)
    ELSE IF part.type = "string" /\ part.s = <<"~">> THEN MatchBlock(stack, next)
    ELSE IF part.type \in {"string", "RegExp"} THEN MatchName(stack, next, part)
    ELSE MatchObject(stack, next, part)

RECURSIVE EveryPart(_, _, _, _, _)
EveryPart(stack, rule, i, next, reads) ==
    IF i > Len(rule) THEN [result |-> next, reads |-> reads, next |-> next]
    ELSE LET r == MatchPart(stack, next, rule[i])
         IN IF r.outcome = "true" THEN EveryPart(stack, rule, i + 1, r.next, reads + r.reads)
            ELSE [result |-> IF r.outcome = "throw" THEN TypeError ELSE Undefined,
                  reads |-> reads + r.reads,
                  next |-> r.next]

\* selector with the number of route reads it made and the state its
\* argument object is left in. `next` is a copy ({ ...checkpoint }): the
\* parts advance the copy in place and the argument keeps its fields.
SelectorRunNoGuard(stack, rule, checkpoint) ==
    LET run == EveryPart(stack, rule, 1, IF checkpoint = Undefined THEN Root ELSE checkpoint, 0)
    IN [result |-> run.result, reads |-> run.reads, checkpoint |-> checkpoint]

SelectorRunAliased(stack, rule, checkpoint) ==
    IF checkpoint = Undefined THEN [result |-> Undefined, reads |-> 0, checkpoint |-> checkpoint]
    ELSE LET run == EveryPart(stack, rule, 1, checkpoint, 0)
         IN [result |-> run.result, reads |-> run.reads, checkpoint |-> run.next]

SelectorRun(stack, rule, checkpoint) ==
    IF checkpoint = Undefined THEN [result |-> Undefined, reads |-> 0, checkpoint |-> checkpoint]
    ELSE LET run == EveryPart(stack, rule, 1, checkpoint, 0)
         IN [result |-> run.result, reads |-> run.reads, checkpoint |-> checkpoint]

selector(stack, rule, checkpoint) == SelectorRun(stack, rule, checkpoint).result

\* ------------------------------------------------------------------- state
VARIABLES
    location,   \* window.location.pathname
    route,      \* Router.#route: the stack of the current Route
    notifiers,  \* the Notifier objects; notifiers[1] is Router.#notifier
    match,      \* match.current of the useSelector call that made notifier n
    trace,      \* what the last operation did, in order
    returned,   \* whether the last navigate returned (did not throw)
    parseArgs,  \* input of the parser under test
    parsed,     \* outputs of parseStack / stringifyStack under test
    selArgs,    \* input of the selector under test
    selOut,     \* output of the selector under test
    call,       \* the last operation and its arguments
    disposed,   \* the notifiers whose useSelector cleanup has run
    singleton,  \* Router.#singleton: 0 while undefined, else the instance
    allocated,  \* how many Router objects have been allocated
    result,     \* what the last Router.singleton read or new Router() gave
    subscriptions,  \* earlier Router revision: #subscriptions
    registrations,  \* earlier Router revision: the subscribe calls made
    invoked,    \* earlier Router revision: the callbacks the last operation called
    cfgArgs,    \* input of loadConfiguration under test
    cfgOut      \* output of loadConfiguration under test

vars == <<location, route, notifiers, match, trace, returned, parseArgs, parsed, selArgs, selOut,
          call, disposed, singleton, allocated, result, subscriptions, registrations, invoked,
          cfgArgs, cfgOut>>

routerVars == <<location, route, notifiers, match, trace, returned,
                call, disposed, singleton, allocated, result>>

subVars == <<subscriptions, registrations, invoked>>

cfgVars == <<cfgArgs, cfgOut>>

parseVars == <<parseArgs, parsed>>

selVars == <<selArgs, selOut>>

\* ------------------------------------------------------------ input spaces
SeqsUpTo(S, n) == UNION {[1..k -> S] : k \in 0..n}

PathAlphabet == {"/", "a", "=", "~", "%", "-", "."}

SegmentSet == {<<"a">>, <<"b">>, <<"~">>, <<"=", "b">>, <<"a", "=", "b">>, <<"%">>}

PathOf(segs) == Concat([i \in 1..Len(segs) |-> <<"/">> \o segs[i]])

DocScenarioPath ==
    <<"/", "u", "s", "e", "r", "s", "/", "u", "s", "e", "r", "/", "=", "1", "2",
      "3", "/", "~", "/", "e", "d", "i", "t", "/", "t", "a", "b", "=", "d", "e",
      "l", "e", "t", "e", "/", "~", "/", "c", "o", "n", "f", "i", "r", "m">>

DocAccumulationPath ==
    <<"/", "u", "s", "e", "r", "s", "/", "=", "m", "a", "l", "e", "/", "a", "g",
      "e", "=", "4", "5", "/", "a", "g", "e", "=", "5", "0">>

ExamplePaths ==
    { <<"/", "x", "/", "~", "/", "y">>,
      <<"/", "~", "/", "x">>,
      <<"/", "a", "/", "b", "=", "x", "/", "b", "=", "y">>,
      <<"/", "a", "/", "b", "/", "b", "/", "~", "/", "c", "/", "=", "x", "/", "y">>,
      DocScenarioPath,
      DocAccumulationPath }

Pathnames ==
    SeqsUpTo(PathAlphabet, MaxPathLen)
        \cup {PathOf(segs) : segs \in SeqsUpTo(SegmentSet, MaxSegs)}
        \cup ExamplePaths

Configurations == {defaultConfiguration, [splitBlock |-> "-", splitParam |-> "."]}

NoSub == [kind |-> "none", id |-> 0]

Event(e, n, sub, old, new) == [e |-> e, n |-> n, sub |-> sub, old |-> old, new |-> new]

\* ----------------------------------------------------------- Notifier tree
Notifier(parent, rule, checkpoint) ==
    [parent |-> parent, rule |-> rule, checkpoint |-> checkpoint, subscriptions |-> <<>>]

\* Notifier.subscribe: push the subscription.
subscribe(ns, n, subscription) ==
    [ns EXCEPT ![n].subscriptions = Append(@, subscription)]

\* Array.prototype.indexOf: zero-based, -1 when the value is absent.
indexOf(seq, x) ==
    IF \E i \in 1..Len(seq) : seq[i] = x
    THEN (CHOOSE i \in 1..Len(seq) : seq[i] = x /\ \A j \in 1..(i - 1) : seq[j] # x) - 1
    ELSE -1

\* Array.prototype.splice(start, 1): a negative start counts from the end.
splice(seq, start) ==
    LET from == IF start >= 0 THEN start
                ELSE IF Len(seq) + start < 0 THEN 0 ELSE Len(seq) + start
    IN IF from >= Len(seq) THEN seq
       ELSE SubSeq(seq, 1, from) \o SubSeq(seq, from + 2, Len(seq))

\* The function returned by Notifier.subscribe(subscription) of notifier n.
unsubscribe(ns, n, subscription) ==
    [ns EXCEPT ![n].subscriptions = splice(@, indexOf(@, subscription))]

\* A subscriber given to notifier.subscribe by the application that calls
\* its own unsubscribe function when it is called.
Once(st, n, sub) ==
    [st EXCEPT !.notifiers = unsubscribe(@, n, sub),
               !.trace = Append(@, Event("unsubscribe", n, sub, Undefined, Undefined))]

\* The listener useSelector subscribes to its notifier.
ListenerAlways(st, n, checkpoint) ==
    [st EXCEPT !.match[n] = (checkpoint # Undefined),
               !.trace = Append(@, Event("update", n, NoSub, Undefined, checkpoint))]

Listener(st, n, checkpoint) ==
    LET present == checkpoint # Undefined
    IN IF st.match[n] # present
       THEN [st EXCEPT !.match[n] = present,
                       !.trace = Append(@, Event("update", n, NoSub, Undefined, checkpoint))]
       ELSE st

RECURSIVE notify(_, _, _)
RECURSIVE ForEach(_, _, _, _)
RECURSIVE Commit(_, _, _)
RECURSIVE Redirect(_, _)

\* Notifier.notify: recompute the checkpoint, then call every subscription.
notifyFromArgument(st, n, checkpoint) ==
    ForEach([st EXCEPT !.notifiers[n].checkpoint = checkpoint,
                       !.trace = Append(@, Event("notify", n, NoSub,
                                                 st.notifiers[n].checkpoint, checkpoint))],
            n, 1, Len(st.notifiers[n].subscriptions))

notifyOnChange(st, n, checkpoint) ==
    LET self == st.notifiers[n]
        new == IF self.parent # 0
               THEN selector(st.route, self.rule, st.notifiers[self.parent].checkpoint)
               ELSE checkpoint
        st1 == [st EXCEPT !.notifiers[n].checkpoint = new,
                          !.trace = Append(@, Event("notify", n, NoSub, self.checkpoint, new))]
    IN IF new = TypeError
       THEN [st EXCEPT !.thrown = TRUE,
                       !.trace = Append(@, Event("throw", n, NoSub, self.checkpoint, new))]
       ELSE IF (self.checkpoint = Undefined) = (new = Undefined) THEN st1
       ELSE ForEach(st1, n, 1, Len(self.subscriptions))

notifyStopsAtNoMatch(st, n, checkpoint) ==
    LET self == st.notifiers[n]
        new == IF self.parent # 0
               THEN selector(st.route, self.rule, st.notifiers[self.parent].checkpoint)
               ELSE checkpoint
        st1 == [st EXCEPT !.notifiers[n].checkpoint = new,
                          !.trace = Append(@, Event("notify", n, NoSub, self.checkpoint, new))]
    IN IF new = TypeError
       THEN [st EXCEPT !.thrown = TRUE,
                       !.trace = Append(@, Event("throw", n, NoSub, self.checkpoint, new))]
       ELSE IF new = Undefined THEN st1
       ELSE ForEach(st1, n, 1, Len(self.subscriptions))

notifySubscribersFirst(st, n, checkpoint) ==
    LET self == st.notifiers[n]
        new == IF self.parent # 0
               THEN selector(st.route, self.rule, st.notifiers[self.parent].checkpoint)
               ELSE checkpoint
    IN IF new = TypeError
       THEN [st EXCEPT !.thrown = TRUE,
                       !.trace = Append(@, Event("throw", n, NoSub, self.checkpoint, new))]
       ELSE LET st1 == ForEach(st, n, 1, Len(self.subscriptions))
            IN [st1 EXCEPT !.notifiers[n].checkpoint = new,
                           !.trace = Append(@, Event("notify", n, NoSub, self.checkpoint, new))]

notify(st, n, checkpoint) ==
    LET self == st.notifiers[n]
        new == IF self.parent # 0
               THEN selector(st.route, self.rule, st.notifiers[self.parent].checkpoint)
               ELSE checkpoint
    IN IF new = TypeError
       THEN [st EXCEPT !.thrown = TRUE,
                       !.trace = Append(@, Event("throw", n, NoSub, self.checkpoint, new))]
       ELSE ForEach([st EXCEPT !.notifiers[n].checkpoint = new,
                               !.trace = Append(@, Event("notify", n, NoSub, self.checkpoint, new))],
                    n, 1, Len(self.subscriptions))

\* Array.prototype.forEach over #subscriptions: the length is read once,
\* and an index that no longer exists is skipped.
ForEach(st, n, i, len) ==
    IF st.thrown \/ i > len THEN st
    ELSE IF i > Len(st.notifiers[n].subscriptions) THEN ForEach(st, n, i + 1, len)
    ELSE LET sub == st.notifiers[n].subscriptions[i]
             cp == st.notifiers[n].checkpoint
             st1 == [st EXCEPT !.trace = Append(@, Event("call", n, sub, Undefined, cp))]
             st2 == IF sub.kind = "notify" THEN notify(st1, sub.id, cp)
                    ELSE IF sub.kind = "listener" THEN Listener(st1, sub.id, cp)
                    ELSE IF sub.kind = "redirect" THEN Redirect(st1, sub)
                    ELSE Once(st1, n, sub)
         IN ForEach(st2, n, i + 1, len)

\* ----------------------------------------------------------------- actions
RuleSet ==
    { <<>>,
      <<StringPart(<<"a">>)>>,
      <<StringPart(<<"/">>), StringPart(<<"a">>)>>,
      <<StringPart(<<"=", "b">>)>>,
      <<StringPart(<<"~">>)>>,
      <<RegExpPart(<<"b">>)>>,
      <<ObjectPart(<<Entry(<<"b">>, "undefined", <<>>, 0, "")>>)>>,
      <<ObjectPart(<<Entry(<<"b">>, "RegExp", <<>>, 0, "")>>)>> }

NavPaths ==
    { <<"/">>,
      <<"/", "a">>,
      <<"/", "a", "/", "b">>,
      <<"/", "a", "/", "=", "b">>,
      <<"/", "a", "/", "~", "/", "=", "b">> }

IdleParse ==
    [phase |-> "idle", stack |-> <<>>, string |-> <<>>, reparsed |-> <<>>,
     searched |-> FALSE, params |-> <<>>, contexted |-> FALSE, context |-> <<>>]

IdleParseArgs ==
    [pathname |-> <<>>, configuration |-> defaultConfiguration, search |-> <<>>,
     pathParts |-> <<>>]

IdleSelArgs == [stack |-> <<>>, rule |-> <<>>, checkpoint |-> Undefined, sibling |-> <<>>]

IdleSelOut ==
    [done |-> FALSE, result |-> Undefined, reads |-> 0, checkpoint |-> Undefined,
     sibling |-> Undefined]

\* new Route(): parse window.location with the default configuration.
Route(pathname) == parseStack(pathname, defaultConfiguration)

\* The last operation: its name and, for navigate, its arguments.
Call(op, to, replace) == [op |-> op, to |-> to, replace |-> replace]

\* The Router exists: one instance was allocated and holds the singleton slot.
RouterReady ==
    /\ call = Call("none", <<>>, FALSE)
    /\ disposed = {}
    /\ singleton = 1
    /\ allocated = 1
    /\ result = 0

SubIdle ==
    /\ subscriptions = <<>>
    /\ registrations = <<>>
    /\ invoked = <<>>

\* A property of a partial configuration: absent, present with the value
\* undefined, or present with a string.
Absent == [kind |-> "absent", s |-> <<>>]

UndefinedValue == [kind |-> "undefined", s |-> <<>>]

Str(s) == [kind |-> "string", s |-> s]

IdleCfgArgs == [splitBlock |-> Absent, splitParam |-> Absent]

DefaultValues ==
    [splitBlock |-> Str(<<defaultConfiguration.splitBlock>>),
     splitParam |-> Str(<<defaultConfiguration.splitParam>>)]

IdleCfgResult ==
    [error |-> "", final |-> DefaultValues, argument |-> IdleCfgArgs, defaults |-> DefaultValues]

IdleCfgOut == [done |-> FALSE, app |-> IdleCfgResult, core |-> IdleCfgResult]

CfgIdle ==
    /\ cfgArgs = IdleCfgArgs
    /\ cfgOut = IdleCfgOut

\* Router.singleton on first use: the Route of the initial location and the
\* root Notifier seeded with the frozen checkpoint.
Init ==
    /\ location \in NavPaths
    /\ route = Route(location)
    /\ notifiers = <<Notifier(0, <<>>, Root)>>
    /\ match = <<FALSE>>
    /\ trace = <<>>
    /\ returned = TRUE
    /\ RouterReady
    /\ SubIdle
    /\ CfgIdle
    /\ parseArgs = IdleParseArgs
    /\ parsed = IdleParse
    /\ selArgs = IdleSelArgs
    /\ selOut = IdleSelOut

\* useSelector(rule) under the provider of notifier `parent`: the useMemo
\* body. A selector that throws leaves no notifier behind.
Mount(parent, rule, cap) ==
    /\ Len(notifiers) < 1 + cap
    /\ LET n == Len(notifiers) + 1
           cp == selector(route, rule, notifiers[parent].checkpoint)
       IN IF cp = TypeError
          THEN /\ trace' = <<Event("throw", n, NoSub, Undefined, cp)>>
               /\ UNCHANGED <<notifiers, match>>
          ELSE /\ notifiers' =
                    subscribe(subscribe(Append(notifiers, Notifier(parent, rule, cp)),
                                        parent, [kind |-> "notify", id |-> n]),
                              n, [kind |-> "listener", id |-> n])
               /\ match' = Append(match, cp # Undefined)
               /\ trace' = <<Event("new", n, NoSub, Undefined, cp)>>
    /\ call' = Call("useSelector", <<>>, FALSE)
    /\ UNCHANGED <<location, route, returned, disposed, singleton, allocated, result>>
    /\ UNCHANGED <<parseVars, selVars, subVars, cfgVars>>

useSelector(parent, rule) == Mount(parent, rule, MaxNotifiers)

\* Router.navigate(to, { replace }).
navigateNotifyFirst(to, replace) ==
    LET st0 == [location |-> to, route |-> route, notifiers |-> notifiers,
                match |-> match, thrown |-> FALSE,
                trace |-> <<Event(IF replace THEN "replaceState" ELSE "pushState",
                                  0, NoSub, Undefined, Undefined)>>]
    IN \E st \in {notify(st0, 1, Root)} :
          /\ location' = to
          /\ route' = Route(to)
          /\ notifiers' = st.notifiers
          /\ match' = st.match
          /\ trace' = Append(st.trace, Event("route", 0, NoSub, Undefined, Undefined))
          /\ returned' = ~st.thrown
          /\ call' = Call("navigate", to, replace)
          /\ UNCHANGED <<disposed, singleton, allocated, result>>
          /\ UNCHANGED <<parseVars, selVars, subVars, cfgVars>>

\* The body of navigate run on the state st: the history operation, the new
\* Route, the notification of the root. It runs as a whole wherever it is
\* called from, a subscriber in the middle of a cascade included.
Commit(st, to, replace) ==
    notify([st EXCEPT !.location = to,
                      !.route = Route(to),
                      !.trace = @ \o <<Event(IF replace THEN "replaceState" ELSE "pushState",
                                             0, NoSub, Undefined, Undefined),
                                       Event("route", 0, NoSub, Undefined, Undefined)>>],
           1, Root)

\* The redirections application subscribers make: subscriber k calls
\* Router.singleton.navigate(RedirectTo(k)) when it is called while the
\* location is RedirectFrom(k). The chain /a -> /a/b -> / ends.
RedirectFrom(k) == IF k = 1 THEN <<"/", "a">> ELSE <<"/", "a", "/", "b">>

RedirectTo(k) == IF k = 1 THEN <<"/", "a", "/", "b">> ELSE <<"/">>

RedirectIsolated(st, sub) ==
    IF st.location = RedirectFrom(sub.id)
    THEN [Commit(st, RedirectTo(sub.id), FALSE) EXCEPT !.route = st.route]
    ELSE st

Redirect(st, sub) ==
    IF st.location = RedirectFrom(sub.id) THEN Commit(st, RedirectTo(sub.id), FALSE) ELSE st

navigate(to, replace) ==
    LET st0 == [location |-> location, route |-> route, notifiers |-> notifiers,
                match |-> match, thrown |-> FALSE, trace |-> <<>>]
    IN \E st \in {Commit(st0, to, replace)} :
          /\ location' = st.location
          /\ route' = st.route
          /\ notifiers' = st.notifiers
          /\ match' = st.match
          /\ trace' = st.trace
          /\ returned' = ~st.thrown
          /\ call' = Call("navigate", to, replace)
          /\ UNCHANGED <<disposed, singleton, allocated, result>>
          /\ UNCHANGED <<parseVars, selVars, subVars, cfgVars>>

Next ==
    \/ \E parent \in 1..Len(notifiers), rule \in RuleSet : useSelector(parent, rule)
    \/ \E to \in NavPaths, replace \in BOOLEAN : navigate(to, replace)

Spec == Init /\ [][Next]_vars

\* ------------------------------------------------- the parser on its own
\* A pathname and a valid configuration are drawn; parseStack, then
\* stringifyStack, then parseStack again are applied.
InitParse ==
    /\ parseArgs \in [pathname : Pathnames, configuration : Configurations,
                     search : {<<>>}, pathParts : {<<>>}]
    /\ parsed = [IdleParse EXCEPT !.phase = "input"]
    /\ location = <<"/">>
    /\ route = Route(location)
    /\ notifiers = <<Notifier(0, <<>>, Root)>>
    /\ match = <<FALSE>>
    /\ trace = <<>>
    /\ returned = TRUE
    /\ selArgs = IdleSelArgs
    /\ selOut = IdleSelOut
    /\ RouterReady
    /\ SubIdle
    /\ CfgIdle

ParseStack ==
    /\ parsed.phase = "input"
    /\ parsed' = IF parseStackThrows(parseArgs.pathname, parseArgs.configuration)
                 THEN [parsed EXCEPT !.phase = "threw"]
                 ELSE [parsed EXCEPT !.phase = "parsed",
                                     !.stack = parseStack(parseArgs.pathname,
                                                          parseArgs.configuration)]
    /\ UNCHANGED <<parseArgs, routerVars, selVars, subVars, cfgVars>>

StringifyStack ==
    /\ parsed.phase = "parsed"
    /\ parsed' = [parsed EXCEPT !.phase = "stringified",
                                !.string = stringifyStack(parsed.stack, parseArgs.configuration)]
    /\ UNCHANGED <<parseArgs, routerVars, selVars, subVars, cfgVars>>

ReparseStack ==
    /\ parsed.phase = "stringified"
    /\ parsed' = IF parseStackThrows(parsed.string, parseArgs.configuration)
                 THEN [parsed EXCEPT !.phase = "threw"]
                 ELSE [parsed EXCEPT !.phase = "reparsed",
                                     !.reparsed = parseStack(parsed.string,
                                                             parseArgs.configuration)]
    /\ UNCHANGED <<parseArgs, routerVars, selVars, subVars, cfgVars>>

NextParse == ParseStack \/ StringifyStack \/ ReparseStack

SpecParse == InitParse /\ [][NextParse]_vars

\* ------------------------------------- parseSearch and parseContext
MaxSearchLen == 6
MaxParts == 3

SearchAlphabet == {"k", "a", "=", "&"}

Searches ==
    LET bare == SeqsUpTo(SearchAlphabet, MaxSearchLen)
    IN bare \cup {<<"?">> \o q : q \in SeqsUpTo(SearchAlphabet, MaxSearchLen - 1)}

ContextPartSet ==
    { <<"k">>, <<"k", "=">>, <<"k", "=", "a">>, <<"=", "a">>, <<"k", "=", "a", "=", "b">>,
      <<"j", "=", "b">> }

ContextPartLists ==
    {<<<<"n">>>> \o ps : ps \in SeqsUpTo(ContextPartSet, MaxParts)}

InitParams ==
    /\ parseArgs \in
          {[IdleParseArgs EXCEPT !.search = q] : q \in Searches}
          \cup {[IdleParseArgs EXCEPT !.pathParts = ps] : ps \in ContextPartLists}
    /\ parsed = IdleParse
    /\ location = <<"/">>
    /\ route = Route(location)
    /\ notifiers = <<Notifier(0, <<>>, Root)>>
    /\ match = <<FALSE>>
    /\ trace = <<>>
    /\ returned = TRUE
    /\ selArgs = IdleSelArgs
    /\ selOut = IdleSelOut
    /\ RouterReady
    /\ SubIdle
    /\ CfgIdle

ParseSearch ==
    /\ ~parsed.searched
    /\ parsed' = [parsed EXCEPT !.searched = TRUE, !.params = parseSearch(parseArgs.search)]
    /\ UNCHANGED <<parseArgs, routerVars, selVars, subVars, cfgVars>>

ParseContext ==
    /\ ~parsed.contexted
    /\ parseArgs.pathParts # <<>>
    /\ parsed' = [parsed EXCEPT !.contexted = TRUE,
                                !.context = parseContext(parseArgs.pathParts,
                                                         parseArgs.configuration)]
    /\ UNCHANGED <<parseArgs, routerVars, selVars, subVars, cfgVars>>

NextParams == ParseSearch \/ ParseContext

SpecParams == InitParams /\ [][NextParams]_vars

\* ----------------------------------------------- the selector on its own
\* A Route, a rule and a parent checkpoint are drawn; select is applied, and
\* then a sibling's rule is applied to the same checkpoint object.
PartSet ==
    { StringPart(<<"/">>),
      StringPart(<<"~">>),
      StringPart(<<"a">>),
      StringPart(<<"=", "b">>),
      RegExpPart(<<"b">>),
      ObjectPart(<<Entry(<<"b">>, "string", <<>>, 0, "")>>),
      ObjectPart(<<Entry(<<"b">>, "undefined", <<>>, 0, "")>>),
      ObjectPart(<<Entry(NameKey, "number", <<>>, 1, "")>>),
      ObjectPart(<<Entry(NameKey, "string", <<"a">>, 0, ""), Entry(<<"b">>, "function", <<>>, 0, "isUndefined")>>),
      ObjectPart(<<Entry(<<"b">>, "RegExp", <<>>, 0, "")>>) }

SelectPaths ==
    { <<"/">>,
      <<"/", "a">>,
      <<"/", "a", "/", "b">>,
      <<"/", "a", "/", "=", "b">>,
      <<"/", "a", "/", "~", "/", "=", "b">>,
      <<"/", "a", "/", "~", "/", "a">>,
      <<"/", "1", "/", "=", "b">>,
      <<"/", "a", "/", "b", "/", "~", "/", "~", "/", "a">> }

MaxBlock == 2
MaxContext == 2

Checkpoints == [block : 0..MaxBlock, context : -1..MaxContext]

\* The rule of a sibling notifier, applied to the same parent checkpoint
\* object after the rule under test.
SiblingRules == {<<StringPart(<<"a">>)>>, <<StringPart(<<"~">>)>>}

InitSelect ==
    /\ selArgs \in [stack : {Route(p) : p \in SelectPaths},
                    rule : SeqsUpTo(PartSet, MaxRuleLen),
                    checkpoint : Checkpoints \cup {Undefined},
                    sibling : SiblingRules]
    /\ selOut = IdleSelOut
    /\ location = <<"/">>
    /\ route = Route(location)
    /\ notifiers = <<Notifier(0, <<>>, Root)>>
    /\ match = <<FALSE>>
    /\ trace = <<>>
    /\ returned = TRUE
    /\ RouterReady
    /\ SubIdle
    /\ CfgIdle
    /\ parseArgs = IdleParseArgs
    /\ parsed = IdleParse

Select ==
    /\ ~selOut.done
    /\ LET r == SelectorRun(selArgs.stack, selArgs.rule, selArgs.checkpoint)
       IN selOut' = [done |-> TRUE, result |-> r.result, reads |-> r.reads,
                     checkpoint |-> r.checkpoint,
                     sibling |-> SelectorRun(selArgs.stack, selArgs.sibling, r.checkpoint).result]
    /\ UNCHANGED <<selArgs, routerVars, parseVars, subVars, cfgVars>>

NextSelect == Select

SpecSelect == InitSelect /\ [][NextSelect]_vars

\* --------------------------------------------- unmounting a useSelector
MountRules ==
    { <<>>,
      <<StringPart(<<"a">>)>>,
      <<StringPart(<<"=", "b">>)>> }

\* The cleanup of useSelector's effect: the unsubscribe of the listener that
\* useMemo registered on the notifier itself. Nothing else is released.
Dispose(n) ==
    /\ n \in 2..Len(notifiers)
    /\ n \notin disposed
    /\ notifiers' = unsubscribe(notifiers, n, [kind |-> "listener", id |-> n])
    /\ disposed' = disposed \cup {n}
    /\ trace' = <<Event("unsubscribe", n, [kind |-> "listener", id |-> n], Undefined, Undefined)>>
    /\ call' = Call("dispose", <<>>, FALSE)
    /\ UNCHANGED <<location, route, match, returned, singleton, allocated, result>>
    /\ UNCHANGED <<parseVars, selVars, subVars, cfgVars>>

\* The same cleanup function called again, as when the effect is torn down
\* a second time: the listener is no longer in the list, indexOf gives -1
\* and splice(-1, 1) takes the last element of the list.
DisposeAgain(n) ==
    /\ n \in disposed
    /\ notifiers' = unsubscribe(notifiers, n, [kind |-> "listener", id |-> n])
    /\ trace' = <<Event("unsubscribe", n, [kind |-> "listener", id |-> n], Undefined, Undefined)>>
    /\ call' = Call("dispose", <<>>, FALSE)
    /\ UNCHANGED <<location, route, match, returned, disposed, singleton, allocated, result>>
    /\ UNCHANGED <<parseVars, selVars, subVars, cfgVars>>

NextDispose ==
    \/ \E parent \in (1..Len(notifiers)) \ disposed, rule \in MountRules :
          Mount(parent, rule, MaxNotifiers)
    \/ \E to \in NavPaths, replace \in BOOLEAN : navigate(to, replace)
    \/ \E n \in 2..Len(notifiers) : Dispose(n)
    \/ \E n \in 2..Len(notifiers) : DisposeAgain(n)

SpecDispose == Init /\ [][NextDispose]_vars

\* ------------------------------------------------------- the singleton
MaxRouters == 3

\* Before anything has read Router.singleton: no instance, no Route, no
\* notifier.
InitSingleton ==
    /\ location \in NavPaths
    /\ route = <<>>
    /\ notifiers = <<>>
    /\ match = <<>>
    /\ trace = <<>>
    /\ returned = TRUE
    /\ call = Call("none", <<>>, FALSE)
    /\ disposed = {}
    /\ singleton = 0
    /\ allocated = 0
    /\ result = 0
    /\ SubIdle
    /\ CfgIdle
    /\ parseArgs = IdleParseArgs
    /\ parsed = IdleParse
    /\ selArgs = IdleSelArgs
    /\ selOut = IdleSelOut

\* new Router(): a fresh object is allocated and its field initializers run
\* on it; the constructor body then either keeps the existing singleton
\* (returning it, or throwing in the revisions that throw) or installs the
\* fresh object with the Route of the current location and its own root
\* notifier. result is the instance the expression evaluates to, -1 for a
\* thrown error.
ConstructorOverwrites(revision) ==
    /\ allocated < MaxRouters
    /\ allocated' = allocated + 1
    /\ singleton' = allocated + 1
    /\ route' = Route(location)
    /\ notifiers' = <<Notifier(0, <<>>, Root)>>
    /\ match' = <<FALSE>>
    /\ result' = allocated + 1

Constructor(revision) ==
    /\ allocated < MaxRouters
    /\ allocated' = allocated + 1
    /\ IF singleton # 0
       THEN /\ result' = IF revision = "returns" THEN singleton ELSE -1
            /\ UNCHANGED <<singleton, route, notifiers, match>>
       ELSE /\ singleton' = allocated + 1
            /\ route' = Route(location)
            /\ notifiers' = <<Notifier(0, <<>>, Root)>>
            /\ match' = <<FALSE>>
            /\ result' = allocated + 1

Revisions == {"returns", "throws"}

NewRouter(revision) ==
    /\ Constructor(revision)
    /\ call' = Call("new", <<>>, FALSE)
    /\ trace' = <<>>
    /\ UNCHANGED <<location, returned, disposed, parseVars, selVars, subVars, cfgVars>>

\* static get singleton(): Router.#singleton ?? new Router().
ReadSingleton(revision) ==
    /\ IF singleton # 0
       THEN /\ result' = singleton
            /\ UNCHANGED <<singleton, allocated, route, notifiers, match>>
       ELSE Constructor(revision)
    /\ call' = Call("singleton", <<>>, FALSE)
    /\ trace' = <<>>
    /\ UNCHANGED <<location, returned, disposed, parseVars, selVars, subVars, cfgVars>>

NextSingleton ==
    \/ \E revision \in Revisions : NewRouter(revision)
    \/ \E revision \in Revisions : ReadSingleton(revision)
    \/ /\ singleton # 0
       /\ \E parent \in 1..Len(notifiers), rule \in MountRules : Mount(parent, rule, MaxNotifiers)
    \/ /\ singleton # 0
       /\ \E to \in NavPaths, replace \in BOOLEAN : navigate(to, replace)

SpecSingleton == InitSingleton /\ [][NextSingleton]_vars

\* ------------------------------------------------------ loadConfiguration
\* { ...defaultConfiguration, ...configuration }: an own property of the
\* argument wins, even when its value is undefined.
Spread(defaults, configuration) ==
    [k \in {"splitBlock", "splitParam"} |->
        IF configuration[k].kind = "absent" THEN defaults[k] ELSE configuration[k]]

BlockSeparators == {<<"-">>, <<"_">>, <<"'">>, <<".">>, <<"!">>, <<"~">>, <<"*">>}

ReservedSeparators ==
    {<<";">>, <<"/">>, <<"?">>, <<":">>, <<"@">>, <<"&">>, <<"+">>, <<"$">>, <<"#">>}

\* Array.prototype.includes of a list of strings.
IncludesValue(list, v) == v.kind = "string" /\ v.s \in list

\* What a call leaves behind: the error thrown ("" when it returned), the
\* object returned, and the argument and the defaults as they are afterwards.
CfgResult(error, final, argument, defaults) ==
    [error |-> error, final |-> final, argument |-> argument, defaults |-> defaults]

\* loadConfiguration of src/configuration.ts.
loadConfigurationNoLength(configuration) ==
    LET final == Spread(DefaultValues, configuration)
        error == IF ~IncludesValue(BlockSeparators, final.splitBlock) THEN "Invalid splitBlock"
                 ELSE IF final.splitParam.kind = "undefined" THEN "TypeError"
                 ELSE IF IncludesValue(ReservedSeparators, final.splitParam)
                      THEN "Invalid splitParam"
                 ELSE ""
    IN CfgResult(error, final, configuration, DefaultValues)

loadConfiguration(configuration) ==
    LET final == Spread(DefaultValues, configuration)
        error == IF ~IncludesValue(BlockSeparators, final.splitBlock) THEN "Invalid splitBlock"
                 ELSE IF final.splitParam.kind = "undefined" THEN "TypeError"
                 ELSE IF Len(final.splitParam.s) # 1
                         \/ IncludesValue(ReservedSeparators, final.splitParam)
                      THEN "Invalid splitParam"
                 ELSE ""
    IN CfgResult(error, final, configuration, DefaultValues)

\* loadConfiguration of packages/core/src/configuration.ts: the same fields
\* under the names blockSeparator / paramSeparator, checked in four steps.
loadConfigurationCore(configuration) ==
    LET final == Spread(DefaultValues, configuration)
        error == IF final.splitParam.kind = "undefined" THEN "TypeError"
                 ELSE IF Len(final.splitParam.s) # 1 THEN "Invalid blockSeparator"
                 ELSE IF ~IncludesValue(BlockSeparators, final.splitBlock)
                      THEN "Invalid blockSeparator"
                 ELSE IF Len(final.splitParam.s) # 1 THEN "Invalid paramSeparator"
                 ELSE IF IncludesValue(ReservedSeparators, final.splitParam)
                      THEN "Invalid paramSeparator"
                 ELSE ""
    IN CfgResult(error, final, configuration, DefaultValues)

BlockInputs ==
    {Absent, UndefinedValue}
        \cup {Str(x) : x \in BlockSeparators}
        \cup {Str(x) : x \in {<<>>, <<"a">>, <<"(">>, <<")">>, <<"=">>, <<"/">>, <<"~", "~">>}}

ParamInputs ==
    {Absent, UndefinedValue}
        \cup {Str(x) : x \in ReservedSeparators}
        \cup {Str(x) : x \in {<<>>, <<"=">>, <<"a">>, <<"~">>, <<"-">>, <<" ">>,
                              <<"=", "=">>, <<"a", "/">>, <<";", ";">>}}

InitConfig ==
    /\ cfgArgs \in [splitBlock : BlockInputs, splitParam : ParamInputs]
    /\ cfgOut = IdleCfgOut
    /\ location = <<"/">>
    /\ route = Route(location)
    /\ notifiers = <<Notifier(0, <<>>, Root)>>
    /\ match = <<FALSE>>
    /\ trace = <<>>
    /\ returned = TRUE
    /\ RouterReady
    /\ SubIdle
    /\ parseArgs = IdleParseArgs
    /\ parsed = IdleParse
    /\ selArgs = IdleSelArgs
    /\ selOut = IdleSelOut

LoadConfiguration ==
    /\ ~cfgOut.done
    /\ cfgOut' = [done |-> TRUE,
                  app |-> loadConfiguration(cfgArgs),
                  core |-> loadConfigurationCore(cfgArgs)]
    /\ UNCHANGED <<cfgArgs, routerVars, parseVars, selVars, subVars>>

NextConfig == LoadConfiguration

SpecConfig == InitConfig /\ [][NextConfig]_vars

\* ------------------------------------------------- back / forward
\* The browser traverses the session history to an entry of this document
\* whose pathname is `to` and dispatches popstate. The Router of the current
\* revision registers no listener for the event (its constructor, lines
\* 121-126, only sets the singleton, the Route and a display name), so
\* nothing of the Router runs.
Popstate(to) ==
    /\ to # location
    /\ location' = to
    /\ trace' = <<Event("popstate", 0, NoSub, Undefined, Undefined)>>
    /\ call' = Call("popstate", to, FALSE)
    /\ UNCHANGED <<route, notifiers, match, returned, disposed, singleton, allocated, result>>
    /\ UNCHANGED <<parseVars, selVars, subVars, cfgVars>>

NextPop ==
    \/ \E parent \in 1..Len(notifiers), rule \in MountRules : Mount(parent, rule, MaxNotifiers)
    \/ \E to \in NavPaths, replace \in BOOLEAN : navigate(to, replace)
    \/ \E to \in NavPaths : Popstate(to)

SpecPop == Init /\ [][NextPop]_vars

\* ------------------------------- Router.subscribe (earlier revision)
\* The Router revision at the head of router.ts keeps a list of route
\* callbacks in place of the notifier tree.
MaxSubscriptions == 3

Callbacks == {"f", "g"}

\* callSubscriptions: the callbacks called, in order, each with the Route.
Invocations(newRoute) ==
    [i \in 1..Len(subscriptions) |-> [callback |-> subscriptions[i], route |-> newRoute]]

\* callSubscriptions: rebuild the Route, then call every subscription.
callSubscriptions ==
    /\ route' = Route(location')
    /\ invoked' = Invocations(route')

\* subscribe(subscription, call): registration r is the closure returned.
Subscribe(callback, callNow) ==
    /\ Len(registrations) < MaxSubscriptions
    /\ invoked' = IF callNow THEN <<[callback |-> callback, route |-> route]>> ELSE <<>>
    /\ subscriptions' = Append(subscriptions, callback)
    /\ registrations' = Append(registrations, [callback |-> callback, unsubscribed |-> FALSE])
    /\ call' = Call("subscribe", <<>>, FALSE)
    /\ trace' = <<>>
    /\ UNCHANGED <<location, route, notifiers, match, returned, disposed,
                   singleton, allocated, result, parseVars, selVars, cfgVars>>

\* The function subscribe returned for registration r: it filters the list
\* by the identity of the callback. It can be called at any time, again too.
Unsubscribe(r) ==
    /\ subscriptions' = SelectSeq(subscriptions, LAMBDA s : s # registrations[r].callback)
    /\ registrations' = [registrations EXCEPT ![r].unsubscribed = TRUE]
    /\ invoked' = <<>>
    /\ call' = Call("unsubscribe", <<>>, FALSE)
    /\ trace' = <<>>
    /\ UNCHANGED <<location, route, notifiers, match, returned, disposed,
                   singleton, allocated, result, parseVars, selVars, cfgVars>>

\* navigate(to, options) of the earlier revision: the history operation,
\* then callSubscriptions.
navigateEarlier(to, replace) ==
    /\ location' = to
    /\ callSubscriptions
    /\ trace' = <<Event(IF replace THEN "replaceState" ELSE "pushState",
                        0, NoSub, Undefined, Undefined),
                  Event("route", 0, NoSub, Undefined, Undefined)>>
    /\ call' = Call("navigate", to, replace)
    /\ UNCHANGED <<subscriptions, registrations, notifiers, match, returned, disposed,
                   singleton, allocated, result, parseVars, selVars, cfgVars>>

\* The popstate listener the earlier constructor registers: callSubscriptions.
PopstateEarlier(to) ==
    /\ to # location
    /\ location' = to
    /\ callSubscriptions
    /\ trace' = <<Event("popstate", 0, NoSub, Undefined, Undefined),
                  Event("route", 0, NoSub, Undefined, Undefined)>>
    /\ call' = Call("popstate", to, FALSE)
    /\ UNCHANGED <<subscriptions, registrations, notifiers, match, returned, disposed,
                   singleton, allocated, result, parseVars, selVars, cfgVars>>

NextSubscribe ==
    \/ \E callback \in Callbacks, callNow \in BOOLEAN : Subscribe(callback, callNow)
    \/ \E r \in 1..Len(registrations) : Unsubscribe(r)
    \/ \E to \in NavPaths, replace \in BOOLEAN : navigateEarlier(to, replace)
    \/ \E to \in NavPaths : PopstateEarlier(to)

SpecSubscribe == Init /\ [][NextSubscribe]_vars

\* ------------------------------------------------ deeper notifier trees
\* The tree of the notifier specification grown to three notifiers below
\* the root, over fewer rules: a notifier with a child and a later sibling.
MaxTree == 3

NextCascade ==
    \/ \E parent \in 1..Len(notifiers), rule \in MountRules : Mount(parent, rule, MaxTree)
    \/ \E to \in NavPaths, replace \in BOOLEAN : navigate(to, replace)

SpecCascade == Init /\ [][NextCascade]_vars

\* ------------------------------- subscribers that unsubscribe when called
MaxOnce == 2

OnceOf(n) ==
    {i \in 1..Len(notifiers[n].subscriptions) : notifiers[n].subscriptions[i].kind = "once"}

\* notifier.subscribe(callback) by the application, with a callback that
\* unsubscribes itself the first time it is called; k tells callbacks apart.
SubscribeOnce(n, k) ==
    /\ \A m \in 1..Len(notifiers) :
          \A i \in OnceOf(m) : notifiers[m].subscriptions[i].id # k
    /\ notifiers' = subscribe(notifiers, n, [kind |-> "once", id |-> k])
    /\ trace' = <<Event("subscribe", n, [kind |-> "once", id |-> k], Undefined, Undefined)>>
    /\ call' = Call("subscribe", <<>>, FALSE)
    /\ UNCHANGED <<location, route, match, returned, disposed, singleton, allocated, result>>
    /\ UNCHANGED <<parseVars, selVars, subVars, cfgVars>>

NextOnce ==
    \/ \E parent \in 1..Len(notifiers), rule \in MountRules : Mount(parent, rule, MaxNotifiers)
    \/ \E to \in NavPaths, replace \in BOOLEAN : navigate(to, replace)
    \/ \E n \in 1..Len(notifiers), k \in 1..MaxOnce : SubscribeOnce(n, k)

SpecOnce == Init /\ [][NextOnce]_vars

\* ------------------------------------- subscribers that navigate
Redirects == {1, 2}

RedirectsOf(n) ==
    {i \in 1..Len(notifiers[n].subscriptions) :
        notifiers[n].subscriptions[i].kind = "redirect"}

\* notifier.subscribe(callback) by the application, with redirecting
\* callback k; each is registered once.
SubscribeRedirect(n, k) ==
    /\ \A m \in 1..Len(notifiers) :
          \A i \in RedirectsOf(m) : notifiers[m].subscriptions[i].id # k
    /\ notifiers' = subscribe(notifiers, n, [kind |-> "redirect", id |-> k])
    /\ trace' = <<Event("subscribe", n, [kind |-> "redirect", id |-> k], Undefined, Undefined)>>
    /\ call' = Call("subscribe", <<>>, FALSE)
    /\ UNCHANGED <<location, route, match, returned, disposed, singleton, allocated, result>>
    /\ UNCHANGED <<parseVars, selVars, subVars, cfgVars>>

NextRedirect ==
    \/ \E parent \in 1..Len(notifiers), rule \in MountRules : Mount(parent, rule, MaxNotifiers)
    \/ \E to \in NavPaths, replace \in BOOLEAN : navigate(to, replace)
    \/ \E n \in 1..Len(notifiers), k \in Redirects : SubscribeRedirect(n, k)

SpecRedirect == Init /\ [][NextRedirect]_vars

\* -------------------------------- constructions after a navigate that threw
\* A rule whose property matcher throws on a context without the key, among
\* notifiers with a name rule, over Routes with one and with two contexts.
MaxThrowTree == 4

ThrowRules ==
    { <<StringPart(<<"a">>)>>,
      <<StringPart(<<"=", "b">>)>>,
      <<ObjectPart(<<Entry(<<"b">>, "RegExp", <<>>, 0, "")>>)>> }

ThrowPaths == { <<"/">>, <<"/", "a">>, <<"/", "a", "/", "=", "b">> }

NextThrow ==
    \/ \E parent \in 1..Len(notifiers), rule \in ThrowRules : Mount(parent, rule, MaxThrowTree)
    \/ \E to \in ThrowPaths : navigate(to, FALSE)

SpecThrow == Init /\ [][NextThrow]_vars

\* ================================================================== claims
IsCheckpoint(c) == c # Undefined /\ c # TypeError

AfterNavigate ==
    /\ Len(trace) > 0
    /\ trace[1].e \in {"pushState", "replaceState"}
    /\ returned

\* C1: after navigate returns, Router.route is the Route parsed from the
\* committed location, the root notifier holds {block 0, context -1}, and
\* every other notifier holds select(its rule, its parent's checkpoint)
\* evaluated against that Route.
NavigateRecomputesAll ==
    AfterNavigate =>
        /\ route = Route(location)
        /\ notifiers[1].checkpoint = Root
        /\ \A n \in 2..Len(notifiers) :
              notifiers[n].checkpoint =
                  selector(Route(location), notifiers[n].rule,
                           notifiers[notifiers[n].parent].checkpoint)

\* A navigation that changed the match state of a grandchild of the root
\* below a child that kept matching.
NavigateRecomputesAllWitness ==
    /\ AfterNavigate
    /\ Len(notifiers) = 3
    /\ notifiers[3].parent = 2
    /\ notifiers[2].rule # <<>>
    /\ IsCheckpoint(notifiers[2].checkpoint)
    /\ \E i \in 1..Len(trace) :
          /\ trace[i].e = "notify" /\ trace[i].n = 3
          /\ trace[i].old = Undefined /\ trace[i].new # Undefined

\* C2: select(rule, NoMatch) is NoMatch for every rule, and the route is
\* not read.
ShortCircuit ==
    (selOut.done /\ selArgs.checkpoint = Undefined) =>
        (selOut.result = Undefined /\ selOut.reads = 0)

\* The rule would match from the root position of that route.
ShortCircuitWitness ==
    /\ selOut.done
    /\ selArgs.checkpoint = Undefined
    /\ Len(selArgs.rule) >= 2
    /\ IsCheckpoint(selector(selArgs.stack, selArgs.rule, Root))

\* C3: a rule that starts with the root anchor '/' matches only from the
\* checkpoint {block 0, context -1}; from any other present checkpoint the
\* result is NoMatch.
AnchoredRule == Len(selArgs.rule) > 0 /\ selArgs.rule[1] = StringPart(<<"/">>)

RootAnchor ==
    (selOut.done /\ AnchoredRule /\ selArgs.checkpoint # Undefined) =>
        /\ IsCheckpoint(selOut.result) => selArgs.checkpoint = Root
        /\ selArgs.checkpoint # Root => selOut.result = Undefined

\* A checkpoint other than the root from which the rest of the rule matches.
RootAnchorWitness ==
    /\ selOut.done
    /\ AnchoredRule
    /\ Len(selArgs.rule) >= 2
    /\ selArgs.checkpoint # Undefined
    /\ selArgs.checkpoint # Root
    /\ IsCheckpoint(selector(selArgs.stack, Tail(selArgs.rule), selArgs.checkpoint))

\* C4: for rules of '/', '~' and literal names, select is the conjunction of
\* its tokens read left to right. The position after the first i tokens is
\* given in closed form: the block index grows by the number of '~' seen,
\* the context index restarts at -1 at the last '~' and grows by the number
\* of names after it.
IsTilde(part) == part = StringPart(<<"~">>)

IsAnchor(part) == part = StringPart(<<"/">>)

IsName(part) == part.type = "string" /\ ~IsTilde(part) /\ ~IsAnchor(part)

LastTilde(rule, i) ==
    LET T == {j \in 1..i : IsTilde(rule[j])}
    IN IF T = {} THEN 0 ELSE CHOOSE j \in T : \A k \in T : k <= j

PositionAfter(rule, c, i) ==
    LET t == LastTilde(rule, i)
    IN [block |-> c.block + Cardinality({j \in 1..i : IsTilde(rule[j])}),
        context |-> (IF t = 0 THEN c.context ELSE -1)
                        + Cardinality({j \in (t + 1)..i : IsName(rule[j])})]

TokenHolds(stack, rule, c, i) ==
    LET before == PositionAfter(rule, c, i - 1)
        after == PositionAfter(rule, c, i)
    IN IF IsAnchor(rule[i]) THEN before = Root
       ELSE IF IsTilde(rule[i]) THEN after.block < Len(stack)
       ELSE /\ after.block < Len(stack)
            /\ after.context < Len(stack[after.block + 1])
            /\ <<NameKey, rule[i].s>> \in
                   {stack[after.block + 1][after.context + 1][k] :
                       k \in 1..Len(stack[after.block + 1][after.context + 1])}

PlainRule == \A i \in 1..Len(selArgs.rule) : selArgs.rule[i].type = "string"

TokenConjunction ==
    (selOut.done /\ PlainRule /\ selArgs.checkpoint # Undefined) =>
        selOut.result =
            IF \A i \in 1..Len(selArgs.rule) :
                   TokenHolds(selArgs.stack, selArgs.rule, selArgs.checkpoint, i)
            THEN PositionAfter(selArgs.rule, selArgs.checkpoint, Len(selArgs.rule))
            ELSE Undefined

\* A rule '/', name, '~' that matches across a block boundary.
TokenConjunctionWitness ==
    /\ selOut.done
    /\ Len(selArgs.rule) = 3
    /\ IsAnchor(selArgs.rule[1]) /\ IsName(selArgs.rule[2]) /\ IsTilde(selArgs.rule[3])
    /\ selArgs.checkpoint = Root
    /\ selOut.result = [block |-> 1, context |-> -1]

\* C5: a property-matcher token never moves the checkpoint; it fails when
\* the context index is still -1; at a current context it passes exactly
\* when every key passes its test against that context's entries: the value
\* equals String(v), the predicate holds, or the key is absent when v is
\* undefined.
EndsWithObject == Len(selArgs.rule) > 0 /\ selArgs.rule[Len(selArgs.rule)].type = "object"

BeforeLast == selector(selArgs.stack, SubSeq(selArgs.rule, 1, Len(selArgs.rule) - 1), selArgs.checkpoint)

EntriesOf(stack, c) ==
    {stack[c.block + 1][c.context + 1][k] : k \in 1..Len(stack[c.block + 1][c.context + 1])}

KeyPasses(entries, e) ==
    LET values == {p[2] : p \in {q \in entries : q[1] = e.k}}
    IN CASE e.kind = "string" -> e.str \in values
         [] e.kind = "number" -> NumberToString(e.num) \in values
         [] e.kind = "function" ->
               \/ e.fn = "isUndefined" /\ values = {}
               \/ e.fn = "isEmpty" /\ EmptyStr \in values
               \/ e.fn \notin {"isUndefined", "isEmpty"} /\ values # {}
         [] e.kind = "undefined" -> values = {}
         [] OTHER -> FALSE

ListedKinds(part) ==
    \A j \in 1..Len(part.entries) :
        part.entries[j].kind \in {"string", "number", "function", "undefined"}

EntrySet(context) == {context[k] : k \in 1..Len(context)}

\* Equality of Stacks: the same blocks of the same contexts, a context
\* being its mapping from keys to values.
StackEq(s, t) ==
    /\ Len(s) = Len(t)
    /\ \A b \in 1..Len(s) :
          /\ Len(s[b]) = Len(t[b])
          /\ \A c \in 1..Len(s[b]) : EntrySet(s[b][c]) = EntrySet(t[b][c])

Parsed == parsed.phase \in {"parsed", "stringified", "reparsed"}

\* C6: parseStack(stringifyStack(s)) equals s for every Stack s produced by
\* parseStack.
RoundTrip ==
    parsed.phase = "reparsed" => StackEq(parsed.reparsed, parsed.stack)

Ctx(name, props) == <<<<NameKey, name>>>> \o props

DocScenarioStack ==
    << << Ctx(<<"u", "s", "e", "r", "s">>, <<>>),
          Ctx(<<"u", "s", "e", "r">>, << <<EmptyStr, <<"1", "2", "3">>>> >>) >>,
       << Ctx(<<"e", "d", "i", "t">>, << <<<<"t", "a", "b">>, <<"d", "e", "l", "e", "t", "e">>>> >>) >>,
       << Ctx(<<"c", "o", "n", "f", "i", "r", "m">>, <<>>) >> >>

DocAccumulationStack ==
    << << Ctx(<<"u", "s", "e", "r", "s">>,
              << <<EmptyStr, <<"m", "a", "l", "e">>>>,
                 <<<<"a", "g", "e">>, <<"4", "5", " ", "5", "0">>>> >>) >> >>

\* C7: a later segment with paramSeparator is merged into the current
\* context as a property and a segment without it starts a new context, so
\* the two documented pathnames parse to the documented Stacks.
DocExamples ==
    (Parsed /\ parseArgs.configuration = defaultConfiguration) =>
        /\ parseArgs.pathname = DocScenarioPath => StackEq(parsed.stack, DocScenarioStack)
        /\ parseArgs.pathname = DocAccumulationPath => StackEq(parsed.stack, DocAccumulationStack)

\* C8: parseBlock opens a Context at the first segment of the block and at
\* every later segment that contains paramSeparator, and nowhere else; the
\* segment that opens a context is its name and the segments that follow it
\* up to the next opening are keys of that context.
Opens(parts, configuration) ==
    {i \in 1..Len(parts) : i = 1 \/ Includes(parts[i], configuration.splitParam)}

NthOpen(parts, configuration, c) ==
    CHOOSE i \in Opens(parts, configuration) :
        Cardinality({k \in Opens(parts, configuration) : k <= i}) = c

Followers(parts, configuration, c) ==
    {i \in 1..Len(parts) :
        /\ i \notin Opens(parts, configuration)
        /\ Cardinality({k \in Opens(parts, configuration) : k <= i}) = c}

BlockParts(j) == BlockRuns(Segments(parseArgs.pathname), parseArgs.configuration)[j]

BoundaryConsumed ==
    Parsed =>
        LET sep == <<parseArgs.configuration.splitBlock>>
            segs == Segments(parseArgs.pathname)
        IN /\ \A j \in 2..Len(parsed.stack) : \A c \in 1..Len(parsed.stack[j]) :
                \A e \in EntrySet(parsed.stack[j][c]) : e[1] # sep /\ e # <<NameKey, sep>>
           /\ (parseArgs.pathname = <<"/", "x", "/", "~", "/", "y">>
                  /\ parseArgs.configuration = defaultConfiguration) =>
                 StackEq(parsed.stack, << <<Ctx(<<"x">>, <<>>)>>, <<Ctx(<<"y">>, <<>>)>> >>)
           /\ (Len(segs) > 0 /\ segs[1] = sep) =>
                 <<NameKey, sep>> \in EntrySet(parsed.stack[1][1])

\* -------------------------------------------------------- cascade claims
NotifyEvents == {i \in 1..Len(trace) : trace[i].e = "notify"}

CallsOf(n, sub) == {k \in 1..Len(trace) : trace[k].e = "call" /\ trace[k].n = n /\ trace[k].sub = sub}

MatchStateChanged(i) == (trace[i].old = Undefined) # (trace[i].new = Undefined)

SubscriptionsOf(n) == {notifiers[n].subscriptions[j] : j \in 1..Len(notifiers[n].subscriptions)}

ChildEdges(p) ==
    {i \in 1..Len(notifiers[p].subscriptions) : notifiers[p].subscriptions[i].kind = "notify"}

LiveChildren(p) == {n \in 2..Len(notifiers) : notifiers[n].parent = p /\ n \notin disposed}

\* C11: once the cleanup returned by useSelector has run for a notifier, its
\* parent's subscriber list no longer holds that notifier's notify callback,
\* every parent has as many child subscriptions as live child notifiers, and
\* a later navigation does not recompute or notify the disposed notifier.
DisposedUnsubscribed ==
    /\ \A n \in disposed :
          \A i \in 1..Len(notifiers[notifiers[n].parent].subscriptions) :
              notifiers[notifiers[n].parent].subscriptions[i] # [kind |-> "notify", id |-> n]
    /\ \A p \in 1..Len(notifiers) : Cardinality(ChildEdges(p)) = Cardinality(LiveChildren(p))
    /\ AfterNavigate =>
          \A i \in 1..Len(trace) : trace[i].e = "notify" => trace[i].n \notin disposed


\* C12: once a Router holds the singleton slot it holds it for good; every
\* read of Router.singleton gives that instance; and a further new Router()
\* gives that instance or throws, leaving the singleton, its Route and its
\* root notifier (with the notifiers hanging from it) as they were.
SingletonStable ==
    [][/\ singleton # 0 => singleton' = singleton
       /\ call'.op = "singleton" => result' = singleton' /\ result' # 0
       /\ (singleton # 0 /\ call'.op \in {"new", "singleton"}) =>
             /\ result' \in {singleton, -1}
             /\ route' = route
             /\ notifiers' = notifiers]_vars

\* A second construction after the singleton's tree grew and the location
\* moved away from the one it was built at.
SingletonStableWitness ==
    /\ call.op = "new"
    /\ allocated >= 2
    /\ result \in {singleton, -1}
    /\ Len(notifiers) >= 2
    /\ route # <<>>


\* The value a property of the configuration takes: the one given, or the
\* default when the argument does not have the property.
Effective(k) == IF cfgArgs[k].kind = "absent" THEN Str(<<IF k = "splitBlock" THEN "~" ELSE "=">>)
                ELSE cfgArgs[k]

OneOf(v, chars) == v.kind = "string" /\ Len(v.s) = 1 /\ v.s[1] \in chars

Rejected ==
    \/ ~OneOf(Effective("splitBlock"), {"-", "_", "'", ".", "!", "~", "*"})
    \/ ~(Effective("splitParam").kind = "string" /\ Len(Effective("splitParam").s) = 1)
    \/ OneOf(Effective("splitParam"), {";", "/", "?", ":", "@", "&", "+", "$", "#"})

HistoryEvents == {i \in 1..Len(trace) : trace[i].e \in {"pushState", "replaceState"}}

\* C14: a navigate(to, options) call makes one history operation,
\* replaceState when options.replace is true and pushState otherwise, and
\* does things in this order: the history commit, the new Route built from
\* the committed location, the notification of the root notifier with the
\* checkpoint {block 0, context -1}; no notifier is notified, and no
\* subscriber called, before the new Route is installed.
NavigateOrder ==
    call.op = "navigate" =>
        /\ HistoryEvents = {1}
        /\ trace[1].e = (IF call.replace THEN "replaceState" ELSE "pushState")
        /\ location = call.to
        /\ trace[2].e = "route"
        /\ route = Route(call.to)
        /\ Len(trace) >= 3
        /\ trace[3].e = "notify" /\ trace[3].n = 1 /\ trace[3].new = Root
        /\ \A i \in 1..Len(trace) :
              trace[i].e \in {"notify", "call", "update", "throw"} => i > 2

\* A replacing navigation whose cascade went through two notifiers below
\* the root.
NavigateOrderWitness ==
    /\ call.op = "navigate"
    /\ call.replace
    /\ call.to # <<"/">>
    /\ Len(notifiers) = 3
    /\ Cardinality(NotifyEvents) = 3


\* C15: after a popstate (back / forward) event Router.route is the Route of
\* the new location and every notifier holds the checkpoint its rule selects
\* in that Route, as after navigate.
PopstateRebuilds ==
    call.op = "popstate" =>
        /\ route = Route(location)
        /\ notifiers[1].checkpoint = Root
        /\ \A n \in 2..Len(notifiers) :
              notifiers[n].checkpoint =
                  selector(Route(location), notifiers[n].rule,
                           notifiers[notifiers[n].parent].checkpoint)


InvocationsOf(callback) == {i \in 1..Len(invoked) : invoked[i].callback = callback}

LiveRegistrations(callback) ==
    {r \in 1..Len(registrations) :
        registrations[r].callback = callback /\ ~registrations[r].unsubscribed}

\* C16: on every Route change a callback registered with Router.subscribe
\* is called once for each of its registrations whose unsubscribe function
\* has not been called, with the new Route, and not at all once none is
\* left; unsubscribing one registration leaves the others in place.
SubscribersCalledPerRegistration ==
    call.op \in {"navigate", "popstate"} =>
        /\ \A callback \in Callbacks :
              Cardinality(InvocationsOf(callback)) = Cardinality(LiveRegistrations(callback))
        /\ \A i \in 1..Len(invoked) : invoked[i].route = Route(location)


\* C17: select leaves the checkpoint object it was given with the fields it
\* had, whether the rule matches or fails part-way, so a sibling that
\* applies its own rule to the same parent checkpoint afterwards gets what
\* it would have got had it been evaluated first.
SelectKeepsCheckpoint ==
    selOut.done =>
        /\ selOut.checkpoint = selArgs.checkpoint
        /\ selOut.sibling =
              IF selArgs.checkpoint = Undefined THEN Undefined
              ELSE EveryPart(selArgs.stack, selArgs.sibling, 1, selArgs.checkpoint, 0).result

\* A rule that advanced two positions from a parent checkpoint from which
\* the sibling's rule matches too.
SelectKeepsCheckpointWitness ==
    /\ selOut.done
    /\ IsCheckpoint(selArgs.checkpoint)
    /\ Len(selArgs.rule) = 2
    /\ IsCheckpoint(selOut.result)
    /\ selOut.result # selArgs.checkpoint
    /\ IsCheckpoint(selOut.sibling)
    /\ selOut.sibling # selOut.result


\* C18: in the Stack parsed from any pathname every Block has at least one
\* Context, every Context has a non-empty name, and the Stack has no Block
\* exactly when the pathname has no non-empty segment.
StackWellFormed ==
    Parsed =>
        /\ \A j \in 1..Len(parsed.stack) :
              /\ Len(parsed.stack[j]) >= 1
              /\ \A c \in 1..Len(parsed.stack[j]) :
                    /\ HasKey(parsed.stack[j][c], NameKey)
                    /\ Get(parsed.stack[j][c], NameKey) # EmptyStr
        /\ (Len(parsed.stack) = 0) <=>
              (\A i \in 1..Len(parseArgs.pathname) : parseArgs.pathname[i] = "/")

DoubledSlash ==
    \E i \in 1..(Len(parseArgs.pathname) - 1) :
        parseArgs.pathname[i] = "/" /\ parseArgs.pathname[i + 1] = "/"

\* A pathname with an empty segment between two slashes and a trailing
\* slash that still parses to a Block.
StackWellFormedWitness ==
    /\ Parsed
    /\ DoubledSlash
    /\ parseArgs.pathname[Len(parseArgs.pathname)] = "/"
    /\ Len(parsed.stack) = 1

IsString(x) == \A i \in 1..Len(x) : x[i] \in STRING

IsStack(stack) ==
    \A j \in 1..Len(stack) :
        \A c \in 1..Len(stack[j]) :
            \A e \in 1..Len(stack[j][c]) :
                /\ Len(stack[j][c][e]) = 2
                /\ IsString(stack[j][c][e][1])
                /\ IsString(stack[j][c][e][2])

\* C19: parseStack returns a Stack for every pathname and never throws,
\* whatever the slashes (leading, trailing, doubled) and whether or not
\* segments equal a separator or hold several of them.
ParseStackTotal ==
    /\ parsed.phase # "threw"
    /\ Parsed => IsStack(parsed.stack)

\* A pathname with a doubled slash whose segments are the param separator
\* and then the block separator.
ParseStackTotalWitness ==
    /\ Parsed
    /\ DoubledSlash
    /\ Segments(parseArgs.pathname) =
          << <<parseArgs.configuration.splitParam>>, <<parseArgs.configuration.splitBlock>> >>
    /\ Len(parsed.stack) = 2


NotifyIndex(n) == CHOOSE i \in 1..Len(trace) : trace[i].e = "notify" /\ trace[i].n = n

RECURSIVE Ancestors(_)
Ancestors(n) ==
    IF notifiers[n].parent = 0 THEN {}
    ELSE {notifiers[n].parent} \cup Ancestors(notifiers[n].parent)

\* Position of the notify callback of notifier n in its parent's list.
SubscriptionIndex(n) ==
    CHOOSE i \in 1..Len(notifiers[notifiers[n].parent].subscriptions) :
        notifiers[notifiers[n].parent].subscriptions[i] = [kind |-> "notify", id |-> n]

\* C20: in the cascade of one navigation a notifier first replaces its
\* checkpoint with select(its rule, its parent's current checkpoint) and
\* then calls its subscribers with it; when a child is notified its parent
\* has already been recomputed for the new Route; and the whole subtree of a
\* notifier is notified before the notifier's next sibling.
CascadeDepthFirst ==
    (call.op = "navigate" /\ returned) =>
        /\ \A n \in 2..Len(notifiers) :
              /\ NotifyIndex(notifiers[n].parent) < NotifyIndex(n)
              /\ trace[NotifyIndex(n)].new =
                    selector(Route(location), notifiers[n].rule,
                             trace[NotifyIndex(notifiers[n].parent)].new)
        /\ \A k \in 1..Len(trace) :
              trace[k].e = "call" =>
                  /\ NotifyIndex(trace[k].n) < k
                  /\ trace[k].new = trace[NotifyIndex(trace[k].n)].new
        /\ \A a, b \in 2..Len(notifiers) :
              (/\ notifiers[a].parent = notifiers[b].parent
               /\ SubscriptionIndex(a) < SubscriptionIndex(b)) =>
                  \A d \in 2..Len(notifiers) :
                      (d = a \/ a \in Ancestors(d)) => NotifyIndex(d) < NotifyIndex(b)

\* A child of the root that was mounted before its sibling but got its own
\* child after it: the grandchild is notified before the sibling.
CascadeDepthFirstWitness ==
    /\ call.op = "navigate"
    /\ returned
    /\ Len(notifiers) = 4
    /\ notifiers[2].parent = 1
    /\ notifiers[3].parent = 1
    /\ notifiers[4].parent = 2
    /\ NotifyIndex(4) < NotifyIndex(3)
    /\ trace[NotifyIndex(2)].old # trace[NotifyIndex(2)].new


\* The states the claims about held checkpoints speak of: right after the
\* Router was built, after a useSelector construction, after a navigate that
\* returned.
Settled ==
    \/ call.op \in {"none", "useSelector"}
    \/ call.op = "navigate" /\ returned

\* C21: after a construction and after a navigate that returned, a notifier
\* whose checkpoint is absent has only descendants whose checkpoint is
\* absent, whatever their rules and the Route.
NoMatchPropagates ==
    Settled =>
        \A n \in 2..Len(notifiers) :
            notifiers[notifiers[n].parent].checkpoint = Undefined =>
                notifiers[n].checkpoint = Undefined

\* A navigation took the match away from a notifier whose child has the
\* empty rule: the child matched before and is absent now.
NoMatchPropagatesWitness ==
    /\ call.op = "navigate" /\ returned
    /\ Len(notifiers) = 3
    /\ notifiers[3].parent = 2
    /\ notifiers[3].rule = <<>>
    /\ notifiers[2].checkpoint = Undefined
    /\ notifiers[3].checkpoint = Undefined
    /\ \E i \in 1..Len(trace) :
          trace[i].e = "notify" /\ trace[i].n = 3 /\ IsCheckpoint(trace[i].old)


UpdatesOf(n) == {i \in 1..Len(trace) : trace[i].e = "update" /\ trace[i].n = n}

NotificationsOf(n) == {i \in 1..Len(trace) : trace[i].e = "notify" /\ trace[i].n = n}

\* C22: the match flag that the listener of useSelector keeps equals whether
\* its notifier's checkpoint is present, after the construction and after
\* every notification; the listener triggers an update on a notification
\* that flips the flag and on no other.
ListenerTracksMatch ==
    Settled =>
        \A n \in 2..Len(notifiers) :
            /\ match[n] = (notifiers[n].checkpoint # Undefined)
            /\ Cardinality(UpdatesOf(n)) =
                  Cardinality({i \in NotificationsOf(n) : MatchStateChanged(i)})

\* One navigation in which a notifier kept matching, and was not updated,
\* while its child lost the match and was updated once.
ListenerTracksMatchWitness ==
    /\ call.op = "navigate" /\ returned
    /\ Len(notifiers) = 3
    /\ notifiers[3].parent = 2
    /\ \E i \in NotificationsOf(2) : IsCheckpoint(trace[i].old) /\ IsCheckpoint(trace[i].new)
    /\ UpdatesOf(2) = {}
    /\ \E i \in NotificationsOf(3) : IsCheckpoint(trace[i].old) /\ trace[i].new = Undefined
    /\ Cardinality(UpdatesOf(3)) = 1
    /\ ~match[3]


\* C23: when a subscriber unsubscribes from a notifier during that
\* notifier's notify pass, no subscriber that stays registered is skipped:
\* every subscriber still in the list after the pass was called in it.
NoSubscriberSkipped ==
    (call.op = "navigate" /\ returned) =>
        \A n \in 1..Len(notifiers) :
            NotificationsOf(n) # {} =>
                \A sub \in SubscriptionsOf(n) : CallsOf(n, sub) # {}


\* C24: a call of the unsubscribe function that Notifier.subscribe returned
\* takes that one subscription out of the notifier's list and nothing else;
\* when the subscription is already gone the list stays as it is.
UnsubscribeOnlyItsOwn ==
    [][call'.op = "dispose" =>
          notifiers' =
              [notifiers EXCEPT ![trace'[1].n].subscriptions =
                  SelectSeq(@, LAMBDA x : x # trace'[1].sub)]]_vars


\* C25: when subscribers navigate in the middle of a cascade, once the
\* outermost navigate has returned Router.route is the Route of the location
\* committed last and every notifier holds select(its rule, its parent's
\* checkpoint) on that Route; none holds a checkpoint of a superseded Route.
ReentrantNavigateSettles ==
    (call.op = "navigate" /\ returned /\ Cardinality(HistoryEvents) >= 2) =>
        /\ route = Route(location)
        /\ notifiers[1].checkpoint = Root
        /\ \A n \in 2..Len(notifiers) :
              /\ notifiers[n].checkpoint =
                    selector(route, notifiers[n].rule, notifiers[notifiers[n].parent].checkpoint)
              /\ match[n] = (notifiers[n].checkpoint # Undefined)

\* navigate('/a') that was redirected twice, to /a/b and then to /, by
\* subscribers of a notifier below the root whose own match changed.
ReentrantNavigateSettlesWitness ==
    /\ call.op = "navigate" /\ returned
    /\ call.to = <<"/", "a">>
    /\ location = <<"/">>
    /\ Cardinality(HistoryEvents) = 3
    /\ Len(notifiers) = 3
    /\ RedirectsOf(1) = {}
    /\ \E i \in NotificationsOf(2) : trace[i].old # trace[i].new


\* A checkpoint that is a position of the stack.
ValidPosition(stack, checkpoint) ==
    /\ checkpoint.block >= 0
    /\ checkpoint.context >= -1
    /\ checkpoint.block = 0 \/ BlockExists(stack, checkpoint.block)
    /\ checkpoint.context = -1 \/ ContextExists(stack, checkpoint.block, checkpoint.context)

\* C26: after a construction and after a navigate that returned, every
\* checkpoint a notifier holds is a position of the current Route: its block
\* index is 0 or the index of a block of the stack, its context index is -1
\* or the index of a context of that block; neither is below these.
CheckpointsAreValidPositions ==
    Settled =>
        \A n \in 1..Len(notifiers) :
            notifiers[n].checkpoint # Undefined => ValidPosition(route, notifiers[n].checkpoint)

\* Context names without a separator, and the rule [n0, '~', n1].
PlainNames == {<<"a">>}

BoundaryRule(n0, n1) == <<StringPart(n0), StringPart(<<"~">>), StringPart(n1)>>

\* C27: on the Route parsed from /n0/~/n1, names without a separator, the
\* rule [n0, '~', n1] applied to the root checkpoint matches and returns
\* the first context of the second block, {block 1, context 0}.
BoundaryRuleMatches ==
    \A n0 \in PlainNames, n1 \in PlainNames :
        ( /\ selOut.done
          /\ selArgs.stack = Route(PathOf(<<n0, <<"~">>, n1>>))
          /\ selArgs.rule = BoundaryRule(n0, n1)
          /\ selArgs.checkpoint = Root )
        => selOut.result = [block |-> 1, context |-> 0]


\* C28: select never raises: for every Route, checkpoint and rule of the
\* supported part shapes its outcome is a checkpoint or NoMatch.
SelectNeverRaises == selOut.done => selOut.result # TypeError


\* A part cut once, at its first separator: the key before it and all the
\* rest after it; without a separator, one of the two is empty.
SplitFirst(part, sep, keyless) ==
    IF Includes(part, sep)
    THEN LET i == FirstIndex(part, sep)
         IN <<SubSeq(part, 1, i - 1), SubSeq(part, i + 1, Len(part))>>
    ELSE IF keyless THEN <<EmptyStr, part>> ELSE <<part, EmptyStr>>

\* C29: key and value are split once, at the first separator: a search of
\* one part and a context of a name and one property segment map the part
\* to the key before the first separator and the whole rest as the value;
\* without a separator the value is empty (search) or the key is empty and
\* the segment is the value (context).
SplitOnceAtFirstSeparator ==
    /\ (parsed.searched /\ Len(SearchParts(parseArgs.search)) = 1) =>
          parsed.params = <<SplitFirst(SearchParts(parseArgs.search)[1], "=", FALSE)>>
    /\ (parsed.contexted /\ Len(parseArgs.pathParts) = 2) =>
          parsed.context =
              << <<NameKey, parseArgs.pathParts[1]>>,
                 SplitFirst(parseArgs.pathParts[2], parseArgs.configuration.splitParam, TRUE) >>

\* The values of a key among the <<key, value>> entries, in encounter order.
ValuesOf(entries, key) ==
    LET hits == SelectSeq(entries, LAMBDA e : e[1] = key)
    IN [i \in 1..Len(hits) |-> hits[i][2]]

Keys(entries) == {entries[i][1] : i \in 1..Len(entries)}

\* The mapping in which every key holds its values joined with one space
\* between consecutive values.
JoinedBySpace(entries, mapping) ==
    /\ Keys(mapping) = Keys(entries)
    /\ Len(mapping) = Cardinality(Keys(mapping))
    /\ \A key \in Keys(entries) : Get(mapping, key) = Join(ValuesOf(entries, key), <<" ">>)

\* C30: a key that occurs n times, with values v1..vn of which any may be
\* empty, is mapped once, to v1 v2 ... vn in encounter order with exactly one
\* space between consecutive values, in parseSearch and in parseContext.
AccumulatesWithSingleSpaces ==
    /\ parsed.searched =>
          LET parts == SearchParts(parseArgs.search)
          IN JoinedBySpace([i \in 1..Len(parts) |-> SearchEntry(parts[i])], parsed.params)
    /\ parsed.contexted =>
          JoinedBySpace([i \in 1..Len(parseArgs.pathParts) |->
                            ContextEntry(parseArgs.pathParts[i], i, parseArgs.configuration)],
                        parsed.context)

====
